---- MODULE Spec2Model ----
(***************************************************************************)
(* Model of src/main.rs: the Lorenz attractor visualisation.               *)
(*                                                                         *)
(* The program keeps one resource, LorenzPostition.translation (a Vec3 of  *)
(* f32), inserted by `setup` and advanced by `lorenz_system`, which runs   *)
(* 50 explicit Euler steps per Update tick and spawns one LineStrip entity *)
(* per step.  `map_range` is a generic pure function used for the colour.  *)
(*                                                                         *)
(* f32 arithmetic is modelled bit-exactly (IEEE-754 binary32, round to     *)
(* nearest, ties to even).  A float is a record [s, e, m]: sign bit,       *)
(* biased exponent 0..255 and 23-bit fraction.  All NaNs are one value.    *)
(***************************************************************************)
EXTENDS Integers, Sequences, FiniteSets, TLC

(***************************************************************************)
(* IEEE-754 binary32                                                       *)
(***************************************************************************)
P12 == 2^12
P19 == 2^19
P22 == 2^22
P23 == 2^23
P24 == 2^24
P26 == 2^26
P27 == 2^27

F32(s, e, m) == [s |-> s, e |-> e, m |-> m]

NaN == F32(0, 255, P22)
Inf(s) == F32(s, 255, 0)
Zero(s) == F32(s, 0, 0)

IsNaN(a) == a.e = 255 /\ a.m # 0
IsInf(a) == a.e = 255 /\ a.m = 0
IsZero(a) == a.e = 0 /\ a.m = 0
IsFinite(a) == a.e < 255

Xor(s, t) == IF s = t THEN 0 ELSE 1

\* value of a finite float = Sig(a) * 2^(Ex(a) - 150)
Sig(a) == IF a.e = 0 THEN a.m ELSE P23 + a.m
Ex(a) == IF a.e = 0 THEN 1 ELSE a.e

\* shift right by n, or-ing every bit shifted out into bit 0
RECURSIVE ShiftRightJam(_, _)
ShiftRightJam(M, n) ==
    IF n = 0 \/ M <= 1 THEN M
    ELSE ShiftRightJam((M \div 2) + (IF M % 2 = 1 /\ (M \div 2) % 2 = 0 THEN 1 ELSE 0), n - 1)

\* rounds M * 2^(E - 153) to the nearest float, ties to even.
\* M carries three extra low bits, the lowest one sticky; 0 <= M < 2^30.
RECURSIVE RoundPack(_, _, _)
RoundPack(s, E, M) ==
    IF M = 0 THEN Zero(s)
    ELSE IF M >= P27 THEN RoundPack(s, E + 1, ShiftRightJam(M, 1))
    ELSE IF M < P26 /\ E > 1 THEN RoundPack(s, E - 1, M * 2)
    ELSE IF E < 1 THEN RoundPack(s, 1, ShiftRightJam(M, IF 1 - E > 30 THEN 30 ELSE 1 - E))
    ELSE LET q == M \div 8
             r == M % 8
             up == r > 4 \/ (r = 4 /\ q % 2 = 1)
             q1 == IF up THEN q + 1 ELSE q
             E1 == IF q1 = P24 THEN E + 1 ELSE E
             q2 == IF q1 = P24 THEN P23 ELSE q1
         IN  IF q2 < P23 THEN F32(s, 0, q2)
             ELSE IF E1 >= 255 THEN Inf(s)
             ELSE F32(s, E1, q2 - P23)

\* a normalised view of a finite non-zero float: sig in [2^23, 2^24)
RECURSIVE NormSig(_, _)
NormSig(sig, ex) ==
    IF sig >= P23 THEN [sig |-> sig, ex |-> ex] ELSE NormSig(sig * 2, ex - 1)

Norm(a) == NormSig(Sig(a), Ex(a))

FNeg(a) == IF IsNaN(a) THEN NaN ELSE F32(1 - a.s, a.e, a.m)

FAdd(a, b) ==
    IF IsNaN(a) \/ IsNaN(b) THEN NaN
    ELSE IF IsInf(a) THEN (IF IsInf(b) /\ a.s # b.s THEN NaN ELSE a)
    ELSE IF IsInf(b) THEN b
    ELSE LET ea == Ex(a)
             eb == Ex(b)
             E == IF ea >= eb THEN ea ELSE eb
             sa == ShiftRightJam(Sig(a) * 8, E - ea)
             sb == ShiftRightJam(Sig(b) * 8, E - eb)
         IN  IF a.s = b.s THEN RoundPack(a.s, E, sa + sb)
             ELSE IF sa = sb THEN Zero(0)
             ELSE IF sa > sb THEN RoundPack(a.s, E, sa - sb)
             ELSE RoundPack(b.s, E, sb - sa)

FSub(a, b) == FAdd(a, FNeg(b))

FMul(a, b) ==
    IF IsNaN(a) \/ IsNaN(b) THEN NaN
    ELSE IF IsInf(a) \/ IsInf(b)
         THEN (IF IsZero(a) \/ IsZero(b) THEN NaN ELSE Inf(Xor(a.s, b.s)))
    ELSE IF IsZero(a) \/ IsZero(b) THEN Zero(Xor(a.s, b.s))
    ELSE LET na == Norm(a)
             nb == Norm(b)
             a1 == na.sig \div P12
             a0 == na.sig % P12
             b1 == nb.sig \div P12
             b0 == nb.sig % P12
             mid == a1 * b0 + a0 * b1
             lo == (mid % P12) * P12 + a0 * b0
             hi == a1 * b1 + (mid \div P12) + (lo \div P24)
             lo24 == lo % P24
             M == hi * 32 + (lo24 \div P19)
             st == IF lo24 % P19 # 0 /\ M % 2 = 0 THEN 1 ELSE 0
         IN  RoundPack(Xor(a.s, b.s), na.ex + nb.ex - 128, M + st)

\* n quotient bits of rem / d by long division; rem < 2 * d
RECURSIVE DivLoop(_, _, _, _)
DivLoop(rem, d, q, n) ==
    IF n = 0 THEN [q |-> q, rem |-> rem]
    ELSE IF rem >= d THEN DivLoop((rem - d) * 2, d, q * 2 + 1, n - 1)
    ELSE DivLoop(rem * 2, d, q * 2, n - 1)

FDiv(a, b) ==
    IF IsNaN(a) \/ IsNaN(b) THEN NaN
    ELSE IF IsInf(a) THEN (IF IsInf(b) THEN NaN ELSE Inf(Xor(a.s, b.s)))
    ELSE IF IsInf(b) THEN Zero(Xor(a.s, b.s))
    ELSE IF IsZero(b) THEN (IF IsZero(a) THEN NaN ELSE Inf(Xor(a.s, b.s)))
    ELSE IF IsZero(a) THEN Zero(Xor(a.s, b.s))
    ELSE LET na == Norm(a)
             nb == Norm(b)
             d == DivLoop(na.sig, nb.sig, 0, 27)
             st == IF d.rem # 0 /\ d.q % 2 = 0 THEN 1 ELSE 0
         IN  RoundPack(Xor(a.s, b.s), na.ex - nb.ex + 127, d.q + st)

\* comparisons (IEEE: NaN is unordered, -0 = +0)
Mag(a) == a.e * P23 + a.m
Key(a) == IF a.s = 0 THEN Mag(a) ELSE 0 - Mag(a)
FEq(a, b) == ~IsNaN(a) /\ ~IsNaN(b) /\ Key(a) = Key(b)
FLt(a, b) == ~IsNaN(a) /\ ~IsNaN(b) /\ Key(a) < Key(b)
FLe(a, b) == ~IsNaN(a) /\ ~IsNaN(b) /\ Key(a) <= Key(b)

\* conversion of an integer literal, |n| < 2^30
FromInt(n) == IF n < 0 THEN RoundPack(1, 153, 0 - n) ELSE RoundPack(0, 153, n)

\* a decimal literal n/d is parsed to the nearest f32 (n and d exact in f32)
Dec(n, d) == FDiv(FromInt(n), FromInt(d))

(***************************************************************************)
(* Rust integer arithmetic, for the integer instantiations of map_range.   *)
(* An integer value is <<n>>; <<>> stands for a thread that has panicked.  *)
(* Operands stay far below the i32 range, so overflow does not arise.      *)
(***************************************************************************)
Panicked == <<>>
Abs(n) == IF n < 0 THEN 0 - n ELSE n
IAdd(a, b) == IF a = Panicked \/ b = Panicked THEN Panicked ELSE <<a[1] + b[1]>>
ISub(a, b) == IF a = Panicked \/ b = Panicked THEN Panicked ELSE <<a[1] - b[1]>>
IMul(a, b) == IF a = Panicked \/ b = Panicked THEN Panicked ELSE <<a[1] * b[1]>>
\* division truncates toward zero and panics on a zero divisor
IDiv(a, b) ==
    IF a = Panicked \/ b = Panicked THEN Panicked
    ELSE IF b[1] = 0 THEN Panicked
    ELSE IF (a[1] < 0) = (b[1] < 0) THEN <<Abs(a[1]) \div Abs(b[1])>>
    ELSE <<0 - (Abs(a[1]) \div Abs(b[1]))>>

\* the operator impls selected by the type parameter T
Add(T, a, b) == IF T = "f32" THEN FAdd(a, b) ELSE IAdd(a, b)
Sub(T, a, b) == IF T = "f32" THEN FSub(a, b) ELSE ISub(a, b)
Mul(T, a, b) == IF T = "f32" THEN FMul(a, b) ELSE IMul(a, b)
Div(T, a, b) == IF T = "f32" THEN FDiv(a, b) ELSE IDiv(a, b)

(***************************************************************************)
(* map_range<T>                                                            *)
(***************************************************************************)
\* variant: the slope is divided out before the multiplication
map_range_div_first(T, from_range, to_range, s) ==
    Add(T, to_range[1],
        Mul(T, Sub(T, s, from_range[1]),
               Div(T, Sub(T, to_range[2], to_range[1]),
                      Sub(T, from_range[2], from_range[1]))))

\* variant: an empty source range is mapped to the start of the target range
map_range_guarded(T, from_range, to_range, s) ==
    IF from_range[1] = from_range[2] THEN to_range[1]
    ELSE Add(T, to_range[1],
             Div(T, Mul(T, Sub(T, s, from_range[1]), Sub(T, to_range[2], to_range[1])),
                    Sub(T, from_range[2], from_range[1])))

map_range(T, from_range, to_range, s) ==
    Add(T, to_range[1],
        Div(T, Mul(T, Sub(T, s, from_range[1]), Sub(T, to_range[2], to_range[1])),
               Sub(T, from_range[2], from_range[1])))

(***************************************************************************)
(* The program                                                             *)
(***************************************************************************)
Vec3(x, y, z) == [x |-> x, y |-> y, z |-> z]

A == FromInt(10)
B == FDiv(FromInt(8), FromInt(3))
C == FromInt(28)
DT == Dec(1, 1000)

\* variant: the range stops one short
LoopLimitShort == 50 - 1

\* iterations of the for loop in lorenz_system
LoopLimit == 50

\* completed Update ticks explored
MaxTicks == 3

SeedTranslation == Vec3(Dec(1, 10), FromInt(0), Dec(1, 10))
CameraTranslation == Vec3(FromInt(-100), FromInt(0), FromInt(150))

hsla(h, s, l, a) == [hue |-> h, saturation |-> s, lightness |-> l, alpha |-> a]

VARIABLES
    pc,        \* "startup": before the Startup schedule; "idle": between
               \* Update ticks; "loop": inside lorenz_system
    lorenz,    \* the LorenzPostition resource: <<>> until inserted, then <<r>>
    camera,    \* the camera entity: <<>> until spawned, then <<translation>>
    spawned,   \* the MaterialMeshBundle entities, in spawn order
    i,         \* iterations of the for loop completed in this tick
    ticks,     \* completed Update ticks
    call,      \* a call of map_range: <<T, from_range, to_range, s>>
    ret        \* <<>> until the call returns, then <<outcome>>

vars == <<pc, lorenz, camera, spawned, i, ticks, call, ret>>
prog == <<pc, lorenz, camera, spawned, i, ticks>>

\* variant: x is updated before dy and dz are computed
loop_body_stale_x(lz) ==
    LET previous_translation == lz.translation
        dx == FMul(A, FSub(lz.translation.y, lz.translation.x))
        l1 == [lz EXCEPT !.translation.x = FAdd(@, FMul(dx, DT))]
        dy == FSub(FMul(l1.translation.x, FSub(C, l1.translation.z)), l1.translation.y)
        dz == FSub(FMul(l1.translation.x, l1.translation.y), FMul(B, l1.translation.z))
        l2 == [l1 EXCEPT !.translation.y = FAdd(@, FMul(dy, DT))]
        l3 == [l2 EXCEPT !.translation.z = FAdd(@, FMul(dz, DT))]
        h == map_range("f32", <<FromInt(-13), FromInt(13)>>, <<FromInt(25), FromInt(35)>>,
                       l3.translation.x)
        l == map_range("f32", <<FromInt(-28), FromInt(28)>>, <<Dec(3, 10), Dec(7, 10)>>,
                       l3.translation.y)
    IN  [lorenz |-> l3,
         bundle |-> [mesh |-> [points |-> <<previous_translation, l3.translation>>],
                     material |-> [color |-> hsla(h, Dec(8, 10), l, Dec(5, 10))]]]

\* variant: the damping term of dz lacks its factor z
loop_body_dz_no_z(lz) ==
    LET previous_translation == lz.translation
        dx == FMul(A, FSub(lz.translation.y, lz.translation.x))
        dy == FSub(FMul(lz.translation.x, FSub(C, lz.translation.z)), lz.translation.y)
        dz == FSub(FMul(lz.translation.x, lz.translation.y), B)
        l1 == [lz EXCEPT !.translation.x = FAdd(@, FMul(dx, DT))]
        l2 == [l1 EXCEPT !.translation.y = FAdd(@, FMul(dy, DT))]
        l3 == [l2 EXCEPT !.translation.z = FAdd(@, FMul(dz, DT))]
        h == map_range("f32", <<FromInt(-13), FromInt(13)>>, <<FromInt(25), FromInt(35)>>,
                       l3.translation.x)
        l == map_range("f32", <<FromInt(-28), FromInt(28)>>, <<Dec(3, 10), Dec(7, 10)>>,
                       l3.translation.y)
    IN  [lorenz |-> l3,
         bundle |-> [mesh |-> [points |-> <<previous_translation, l3.translation>>],
                     material |-> [color |-> hsla(h, Dec(8, 10), l, Dec(5, 10))]]]

\* variant: the snapshot is taken after x has been updated
loop_body_late_snapshot(lz) ==
    LET dx0 == FMul(A, FSub(lz.translation.y, lz.translation.x))
        previous_translation == [lz EXCEPT !.translation.x = FAdd(@, FMul(dx0, DT))].translation
        dx == FMul(A, FSub(lz.translation.y, lz.translation.x))
        dy == FSub(FMul(lz.translation.x, FSub(C, lz.translation.z)), lz.translation.y)
        dz == FSub(FMul(lz.translation.x, lz.translation.y), FMul(B, lz.translation.z))
        l1 == [lz EXCEPT !.translation.x = FAdd(@, FMul(dx, DT))]
        l2 == [l1 EXCEPT !.translation.y = FAdd(@, FMul(dy, DT))]
        l3 == [l2 EXCEPT !.translation.z = FAdd(@, FMul(dz, DT))]
        h == map_range("f32", <<FromInt(-13), FromInt(13)>>, <<FromInt(25), FromInt(35)>>,
                       l3.translation.x)
        l == map_range("f32", <<FromInt(-28), FromInt(28)>>, <<Dec(3, 10), Dec(7, 10)>>,
                       l3.translation.y)
    IN  [lorenz |-> l3,
         bundle |-> [mesh |-> [points |-> <<previous_translation, l3.translation>>],
                     material |-> [color |-> hsla(h, Dec(8, 10), l, Dec(5, 10))]]]

\* one iteration of the loop body: the resource after it and the bundle spawned
loop_body(lz) ==
    LET previous_translation == lz.translation
        dx == FMul(A, FSub(lz.translation.y, lz.translation.x))
        dy == FSub(FMul(lz.translation.x, FSub(C, lz.translation.z)), lz.translation.y)
        dz == FSub(FMul(lz.translation.x, lz.translation.y), FMul(B, lz.translation.z))
        l1 == [lz EXCEPT !.translation.x = FAdd(@, FMul(dx, DT))]
        l2 == [l1 EXCEPT !.translation.y = FAdd(@, FMul(dy, DT))]
        l3 == [l2 EXCEPT !.translation.z = FAdd(@, FMul(dz, DT))]
        h == map_range("f32", <<FromInt(-13), FromInt(13)>>, <<FromInt(25), FromInt(35)>>,
                       l3.translation.x)
        l == map_range("f32", <<FromInt(-28), FromInt(28)>>, <<Dec(3, 10), Dec(7, 10)>>,
                       l3.translation.y)
    IN  [lorenz |-> l3,
         bundle |-> [mesh |-> [points |-> <<previous_translation, l3.translation>>],
                     material |-> [color |-> hsla(h, Dec(8, 10), l, Dec(5, 10))]]]

NoCall == <<"f32", <<Zero(0), Zero(0)>>, <<Zero(0), Zero(0)>>, Zero(0)>>

Init ==
    /\ pc = "startup"
    /\ lorenz = <<>>
    /\ camera = <<>>
    /\ spawned = <<>>
    /\ i = 0
    /\ ticks = 0
    /\ call = NoCall
    /\ ret = <<>>

\* variant: setup is also run by later schedules
setup_rerun ==
    /\ pc \in {"startup", "idle"}
    /\ camera' = <<CameraTranslation>>
    /\ lorenz' = <<[translation |-> SeedTranslation]>>
    /\ pc' = "idle"
    /\ UNCHANGED <<spawned, i, ticks, call, ret>>

\* Startup schedule: spawn the camera, insert the resource
setup ==
    /\ pc = "startup"
    /\ camera' = <<CameraTranslation>>
    /\ lorenz' = <<[translation |-> SeedTranslation]>>
    /\ pc' = "idle"
    /\ UNCHANGED <<spawned, i, ticks, call, ret>>

\* Update schedule calls lorenz_system; the for loop starts
lorenz_system_enter ==
    /\ pc = "idle"
    /\ ticks < MaxTicks
    /\ pc' = "loop"
    /\ i' = 0
    /\ UNCHANGED <<lorenz, camera, spawned, ticks, call, ret>>

\* one iteration of `for _ in 0..50`
lorenz_system_iter ==
    /\ pc = "loop"
    /\ i < LoopLimit
    /\ LET r == loop_body(lorenz[1])
       IN  /\ lorenz' = <<r.lorenz>>
           /\ spawned' = Append(spawned, r.bundle)
    /\ i' = i + 1
    /\ UNCHANGED <<pc, camera, ticks, call, ret>>

\* variant: the segments of the finished tick are despawned
lorenz_system_return_despawn ==
    /\ pc = "loop"
    /\ i >= LoopLimit
    /\ pc' = "idle"
    /\ ticks' = ticks + 1
    /\ spawned' = <<>>
    /\ UNCHANGED <<lorenz, camera, i, call, ret>>

\* the range is exhausted and lorenz_system returns
lorenz_system_return ==
    /\ pc = "loop"
    /\ i >= LoopLimit
    /\ pc' = "idle"
    /\ ticks' = ticks + 1
    /\ UNCHANGED <<lorenz, camera, spawned, i, call, ret>>

Next ==
    \/ setup
    \/ lorenz_system_enter
    \/ lorenz_system_iter
    \/ lorenz_system_return

Spec == Init /\ [][Next]_vars

(***************************************************************************)
(* The integrator started from an arbitrary position                       *)
(***************************************************************************)
StartTranslations ==
    { Vec3(FromInt(0), FromInt(0), FromInt(0)),
      SeedTranslation,
      Vec3(FromInt(1), FromInt(1), FromInt(1)),
      Vec3(FromInt(-5), FromInt(7), FromInt(20)) }

InitFrom ==
    /\ pc = "idle"
    /\ lorenz \in { <<[translation |-> t]>> : t \in StartTranslations }
    /\ camera = <<CameraTranslation>>
    /\ spawned = <<>>
    /\ i = 0
    /\ ticks = 0
    /\ call = NoCall
    /\ ret = <<>>

NextFrom ==
    \/ lorenz_system_enter
    \/ lorenz_system_iter
    \/ lorenz_system_return

SpecFrom == InitFrom /\ [][NextFrom]_vars

(***************************************************************************)
(* map_range called on arbitrary arguments                                 *)
(***************************************************************************)
\* magnitude of the integer arguments explored
MaxInt == 2

MapFloats ==
    { FromInt(-1), FromInt(0), Dec(1, 2), FromInt(1), FromInt(5), FromInt(10),
      F32(0, 254, 0) }    \* 2^127

MapInts == { <<n>> : n \in (0 - MaxInt)..MaxInt }

MapArgs(T) == IF T = "f32" THEN MapFloats ELSE MapInts

InitMap ==
    /\ pc = "idle"
    /\ lorenz = <<[translation |-> SeedTranslation]>>
    /\ camera = <<CameraTranslation>>
    /\ spawned = <<>>
    /\ i = 0
    /\ ticks = 0
    /\ \E T \in {"f32", "i32"} :
         \E lo1 \in MapArgs(T), hi1 \in MapArgs(T), lo2 \in MapArgs(T),
            hi2 \in MapArgs(T), s \in MapArgs(T) :
              call = <<T, <<lo1, hi1>>, <<lo2, hi2>>, s>>
    /\ ret = <<>>

map_range_call ==
    /\ ret = <<>>
    /\ ret' = <<map_range(call[1], call[2], call[3], call[4])>>
    /\ UNCHANGED <<pc, lorenz, camera, spawned, i, ticks, call>>

NextMap == map_range_call

SpecMap == InitMap /\ [][NextMap]_vars

(***************************************************************************)
(* Properties                                                              *)
(***************************************************************************)
FAbs(a) == IF IsNaN(a) THEN NaN ELSE F32(0, a.e, a.m)
FMax(a, b) == IF FLt(a, b) THEN b ELSE a
Approx(a, target, tol) == FLe(FAbs(FSub(a, target)), tol)
Last(q) == q[Len(q)]
Translation == lorenz[1].translation
IsOrigin(p) == FEq(p.x, Zero(0)) /\ FEq(p.y, Zero(0)) /\ FEq(p.z, Zero(0))

\* the explicit Euler step of the Lorenz equations, every right-hand side
\* taken at the pre-step point p
EulerStep(p) ==
    Vec3(FAdd(p.x, FMul(FMul(FromInt(10), FSub(p.y, p.x)), Dec(1, 1000))),
         FAdd(p.y, FMul(FSub(FMul(p.x, FSub(FromInt(28), p.z)), p.y), Dec(1, 1000))),
         FAdd(p.z, FMul(FSub(FMul(p.x, p.y), FMul(FDiv(FromInt(8), FromInt(3)), p.z)),
                        Dec(1, 1000))))

\* the seed followed by its first n Euler iterates
RECURSIVE Traj(_)
Traj(n) ==
    IF n = 0 THEN <<Vec3(Dec(1, 10), FromInt(0), Dec(1, 10))>>
    ELSE LET t == Traj(n - 1) IN Append(t, EulerStep(Last(t)))

\* C1: one iteration of the loop moves the position by one Euler step whose
\* three derivatives are all computed from the pre-step x, y, z; from the seed
\* (0.1, 0, 0.1) the first step lands within 1e-6 of (0.099, 0.00279, 0.099733).
C1_PreStepEuler ==
    /\ [](/\ spawned # <<>>
          /\ spawned[1].mesh.points[1] = Vec3(Dec(1, 10), FromInt(0), Dec(1, 10))
          => LET q == spawned[1].mesh.points[2]
             IN  /\ Approx(q.x, Dec(99, 1000), Dec(1, 1000000))
                 /\ Approx(q.y, Dec(279, 100000), Dec(1, 1000000))
                 /\ Approx(q.z, Dec(99733, 1000000), Dec(1, 1000000)))
    /\ [][i' = i + 1 => lorenz'[1].translation = EulerStep(Translation)]_vars

C1_Witness ==
    /\ Len(spawned) = 1
    /\ spawned[1].mesh.points[1] = Vec3(Dec(1, 10), FromInt(0), Dec(1, 10))
    /\ Translation = spawned[1].mesh.points[2]
    /\ Translation.y # FromInt(0)

\* C2: every tick runs exactly 50 chained steps and 50 spawns: when n ticks have
\* completed there are 50*n segments and the position is the 50*n-th Euler
\* iterate of the seed; inside a tick, after k iterations, 50*n + k of each.
C2_FiftyChainedSteps ==
    /\ i \in 0..50
    /\ pc = "idle" /\ ticks > 0 => i = 50
    /\ pc # "startup" =>
         LET n == 50 * ticks + (IF pc = "loop" THEN i ELSE 0)
         IN  /\ Len(spawned) = n
             /\ Translation = Last(Traj(n))

C2_Witness == pc = "idle" /\ ticks = 2 /\ Len(spawned) = 100

\* C3: the origin is a fixed point: a step taken at (0, 0, 0) ends at (0, 0, 0),
\* so a run started at the origin is at the origin after every step and tick.
C3_OriginFixed ==
    /\ [](spawned # <<>> /\ IsOrigin(spawned[1].mesh.points[1]) => IsOrigin(Translation))
    /\ [][i' = i + 1 /\ IsOrigin(Translation) => IsOrigin(lorenz'[1].translation)]_vars

C3_Witness == IsOrigin(Translation) /\ ticks >= 1 /\ pc = "loop" /\ i >= 1

Degenerate ==
    IF call[1] = "f32" THEN FEq(call[2][1], call[2][2]) ELSE call[2][1] = call[2][2]

Example1 == <<"f32", <<FromInt(0), FromInt(1)>>, <<FromInt(0), FromInt(10)>>, Dec(1, 2)>>
Example2 == <<"f32", <<FromInt(-1), FromInt(1)>>, <<FromInt(0), FromInt(1)>>, FromInt(0)>>

\* C4: for lo1 # hi1 map_range returns lo2 + (v - lo1)*(hi2 - lo2)/(hi1 - lo1),
\* multiplying before dividing, in the arithmetic of T; it maps 0.5 from (0,1)
\* to (0,10) onto 5.0 and 0 from (-1,1) to (0,1) onto 0.5; the call changes
\* nothing but its return value.
C4_MapFormula ==
    /\ [](ret # <<>> /\ ~Degenerate =>
            /\ ret[1] = Add(call[1], call[3][1],
                            Div(call[1],
                                Mul(call[1], Sub(call[1], call[4], call[2][1]),
                                             Sub(call[1], call[3][2], call[3][1])),
                                Sub(call[1], call[2][2], call[2][1])))
            /\ (call = Example1 => ret[1] = FromInt(5))
            /\ (call = Example2 => ret[1] = Dec(1, 2)))
    /\ [][ret' # ret => UNCHANGED <<prog, call>>]_vars

C4_Witness == call = Example1 /\ ret = <<FromInt(5)>>

\* C5: mapping v from (a, b) onto the same (a, b), a # b, returns v: exactly for
\* integers, within 2^-20 of the largest of |a|, |b|, |v| for f32.
C5_Identity ==
    ret # <<>> /\ call[2] = call[3] /\ ~Degenerate =>
        IF call[1] = "f32"
        THEN Approx(ret[1], call[4],
                    FMul(F32(0, 107, 0),
                         FMax(FAbs(call[2][1]), FMax(FAbs(call[2][2]), FAbs(call[4])))))
        ELSE ret[1] = call[4]

IsNonFinite(T, o) == T = "f32" /\ ~IsFinite(o)

\* C6 as stated: with lo1 = hi1 the call returns a non-finite value (NaN or an
\* infinity) and never crashes, whatever numeric type T is.
C6_NonFiniteAnyType ==
    ret # <<>> /\ Degenerate => IsNonFinite(call[1], ret[1])

\* C6: with lo1 = hi1 an f32 call returns NaN or an infinity, never a finite
\* value; an integer call panics on the division by zero.
C6_NonFiniteOrPanic ==
    ret # <<>> /\ Degenerate =>
        IF call[1] = "f32" THEN ~IsFinite(ret[1]) ELSE ret[1] = Panicked

C6_Witness ==
    /\ call = <<"f32", <<FromInt(5), FromInt(5)>>, <<FromInt(0), FromInt(1)>>, FromInt(5)>>
    /\ ret = <<NaN>>

\* C8: the position resource is absent exactly until setup inserts
\* (0.1, 0, 0.1), which happens before any tick; from then on it is never
\* removed or re-initialised and only a loop iteration changes it.
C8_SingleWriter ==
    /\ [](lorenz = <<>> <=> pc = "startup")
    /\ [][lorenz' # lorenz =>
            \/ /\ pc = "startup" /\ ticks = 0 /\ spawned = <<>>
               /\ lorenz' = <<[translation |-> Vec3(Dec(1, 10), FromInt(0), Dec(1, 10))]>>
            \/ /\ pc = "loop" /\ i' = i + 1
               /\ lorenz # <<>> /\ lorenz' # <<>>]_vars

C8_Witness ==
    /\ pc = "idle" /\ ticks >= 1
    /\ Translation # Vec3(Dec(1, 10), FromInt(0), Dec(1, 10))

\* C9: each loop iteration spawns exactly one segment, whose endpoints are the
\* whole pre-step position followed by the post-step position.
C9_SegmentEndpoints ==
    [][i' = i + 1 =>
         /\ Len(spawned') = Len(spawned) + 1
         /\ Last(spawned').mesh.points = <<Translation, lorenz'[1].translation>>]_vars

C9_Witness ==
    /\ Len(spawned) >= 2
    /\ Last(spawned).mesh.points[2] = Translation
    /\ Last(spawned).mesh.points[1] # Translation

\* C10: the segments form one polyline from the seed: the first starts at
\* (0.1, 0, 0.1), each ends where the next starts, also across ticks, and a
\* spawned segment is never changed or removed.
C10_Polyline ==
    /\ [](/\ spawned # <<>> =>
               spawned[1].mesh.points[1] = Vec3(Dec(1, 10), FromInt(0), Dec(1, 10))
          /\ \A k \in 1..(Len(spawned) - 1) :
               spawned[k].mesh.points[2] = spawned[k + 1].mesh.points[1])
    /\ [][/\ Len(spawned') >= Len(spawned)
          /\ \A k \in 1..Len(spawned) : spawned'[k] = spawned[k]]_vars

C10_Witness ==
    /\ Len(spawned) >= 51
    /\ spawned[50].mesh.points[2] = spawned[51].mesh.points[1]
    /\ spawned[50] # spawned[51]

====
